---------------------------- MODULE Spec2Model ----------------------------
(***************************************************************************)
(* Model of the lead-management front end: App (navigation between two     *)
(* sections), Dashboard (agent roster view) and CreateCampaign (campaign   *)
(* creation view) with their asynchronous fetches.                         *)
(*                                                                         *)
(* JavaScript strings are TLA+ strings, template literals are \o           *)
(* concatenations.  The values null and undefined are the two sentinels    *)
(* below.  React keeps state only for the mounted component: the record of *)
(* the component that is not mounted holds its initial values, and a       *)
(* continuation of a fetch issued by an instance that has been unmounted   *)
(* sets no state.                                                          *)
(***************************************************************************)
EXTENDS Integers, Sequences, FiniteSets, TLC

VARIABLES activeSection, inst, dashboard, createCampaign,
          gets, posts, getsIssued, postsIssued, lastEvent

vars == <<activeSection, inst, dashboard, createCampaign,
          gets, posts, getsIssued, postsIssued, lastEvent>>

(* ------------------------------ bounds -------------------------------- *)
\* number of component instances mounted during one run (the first is the
\* Dashboard that App renders initially)
MaxMounts == 4
\* number of upload POSTs issued during one run
MaxPosts == 2

(* --------------------------- JavaScript values ------------------------ *)
null == "<null>"
undefined == "<undefined>"

\* JavaScript truthiness of the values that occur (null, undefined, strings,
\* File objects): `!v` is ~Truthy(v)
Truthy(v) == v \notin {null, undefined, ""}

\* a || b
OrElse(a, b) == IF Truthy(a) THEN a ELSE b

(* ------------------------------ history ------------------------------ *)
\* lastEvent records the step that led to the state when that step is a run
\* of handleCreateCampaign or the end of a fetch: the operation, the instance
\* it belongs to and one argument (all strings); for the end of an upload
\* also the file that was sent and the Selected File before the step
Event(op, i, arg) ==
    [op |-> op, inst |-> i, arg |-> arg, sent |-> "", before |-> ""]

\* the end of a fetch whose instance was unmounted before
Stale(i, what) == Event("stale", i, what)

\* the value of lastEvent after a step no property needs to recognise
Quiet == Event("", 0, "")

(* ------------------------------ the backend --------------------------- *)
\* agents the backend may return: { id, name? }
Agent1 == [id |-> "agent_42", name |-> "Ann"]
Agent2 == [id |-> "agent_7", name |-> null]
\* decoded bodies of GET /api/v1/agents
Rosters == {<<>>, <<Agent1>>, <<Agent1, Agent2>>}

\* files the user can pick in the file input
Files == {"leads.csv", "other.csv"}

\* HTTP status codes of the responses to GET /api/v1/agents and to
\* POST /api/v1/upload-leads
AgentsStatuses == {200, 500}
UploadStatuses == {200, 400}
\* response.ok
Ok(status) == status >= 200 /\ status <= 299

\* messages of the errors a fetch() rejects with (transport failure)
TransportErrors == {"Failed to fetch"}
\* messages of the errors response.json() rejects with (undecodable body)
DecodeErrors == {"Unexpected token < in JSON"}
\* message of the TypeError of reading .length of undefined
LengthOfUndefined == "Cannot read properties of undefined (reading 'length')"
\* message of the TypeError of reading a field of a body that decodes to null
FieldOfNull == "Cannot read properties of null"

\* lead_ids arrays
LeadIds == {<<>>, <<"1", "2", "3">>}
\* decoded JSON bodies of POST /api/v1/upload-leads, as functions from the
\* field names that are present to their values
UploadBodies ==
    {[lead_ids |-> l] : l \in LeadIds}
    \cup {[detail |-> "bad column"], [detail |-> ""], [info |-> "none"]}

\* obj.field of a decoded body (undefined when the field is absent)
Field(obj, f) == IF f \in DOMAIN obj THEN obj[f] ELSE undefined

(* ------------------------------ App.jsx ------------------------------- *)
Sections == {"dashboard", "create-campaign"}

\* the component renderContent() returns for a section
renderContent(section) ==
    CASE section = "dashboard" -> "Dashboard"
      [] section = "create-campaign" -> "CreateCampaign"
      [] OTHER -> "Dashboard"

\* the component that is mounted
Mounted == renderContent(activeSection)

\* the state updates of a continuation of request g take effect only when
\* the instance that issued g is still the mounted one
Live(g) == g.inst = inst

(* --------------------------- initial states --------------------------- *)
\* useState initial values of Dashboard
DashboardInit == [agents |-> <<>>, loading |-> TRUE, error |-> null]

\* useState initial values of CreateCampaign
CreateCampaignInit ==
    [selectedFile |-> null, message |-> "", messageType |-> "",
     loading |-> FALSE, agents |-> <<>>, selectedAgent |-> "",
     agentLoading |-> TRUE, agentError |-> null]

\* the request fetchAgents() of instance i issues
AgentsRequest(i) == [inst |-> i, phase |-> "fetch"]

Init ==
    /\ activeSection = "dashboard"
    /\ inst = 1
    /\ dashboard = DashboardInit
    /\ createCampaign = CreateCampaignInit
    /\ gets = {AgentsRequest(1)}
    /\ posts = {}
    /\ getsIssued = [i \in 1..MaxMounts |-> IF i = 1 THEN 1 ELSE 0]
    /\ postsIssued = 0
    /\ lastEvent = Quiet

(* ------------------------------ Sidebar ------------------------------- *)
\* onClick of a Sidebar button: setActiveSection(section).  Setting the
\* section that is already active re-renders nothing.  Otherwise the mounted
\* component is unmounted (its state is discarded, its requests stay in
\* flight) and the other one is mounted: fresh state, and its effect runs
\* fetchAgents() once.
setActiveSection(section) ==
    /\ section # activeSection
    /\ inst < MaxMounts
    /\ activeSection' = section
    /\ inst' = inst + 1
    /\ dashboard' = DashboardInit
    /\ createCampaign' = CreateCampaignInit
    /\ gets' = gets \cup {AgentsRequest(inst + 1)}
    /\ getsIssued' = [getsIssued EXCEPT ![inst + 1] = @ + 1]
    /\ lastEvent' = Quiet
    /\ UNCHANGED <<posts, postsIssued>>


(* -------------------- fetchAgents (both components) ------------------- *)
\* what Dashboard renders
DashboardShows(d) ==
    IF d.loading THEN "loading"
    ELSE IF Truthy(d.error) THEN "error"
    ELSE IF Len(d.agents) = 0 THEN "empty"
    ELSE "cards"

\* what AgentSelect renders for the props CreateCampaign passes
AgentSelectShows(c) ==
    IF c.agentLoading THEN "loading"
    ELSE IF Truthy(c.agentError) THEN "error"
    ELSE IF Len(c.agents) = 0 THEN "none"
    ELSE "select"

\* the Error thrown for a response that is not ok
HttpError(status) == "HTTP error! status: " \o ToString(status)

\* Dashboard: setAgents(data), then finally setLoading(false)
DashboardLoaded(d, data) == [d EXCEPT !.agents = data, !.loading = FALSE]

\* faulty variant: the catch block does not call setError
DashboardFailed_NoError(d, msg) == [d EXCEPT !.loading = FALSE]

\* Dashboard: catch (e) setError(e.message), then finally setLoading(false)
DashboardFailed(d, msg) == [d EXCEPT !.error = msg, !.loading = FALSE]

\* faulty variant: the first agent of the roster is selected automatically
CampaignLoaded_SelectsFirst(c, data) ==
    [c EXCEPT !.agents = data, !.agentLoading = FALSE,
              !.selectedAgent = IF Len(data) > 0 THEN data[1].id ELSE @]

\* CreateCampaign: setAgents(data), then finally setAgentLoading(false);
\* selectedAgent is not touched
CampaignLoaded(c, data) == [c EXCEPT !.agents = data, !.agentLoading = FALSE]

\* CreateCampaign: catch (e) setAgentError(e.message), then finally
\* setAgentLoading(false)
CampaignFailed(c, msg) ==
    [c EXCEPT !.agentError = msg, !.agentLoading = FALSE]

\* fetchAgents ends with the decoded collection
AgentsSettleLoaded(g, data) ==
    /\ gets' = gets \ {g}
    /\ IF ~Live(g) THEN UNCHANGED <<dashboard, createCampaign>>
       ELSE IF Mounted = "Dashboard"
       THEN /\ dashboard' = DashboardLoaded(dashboard, data)
            /\ UNCHANGED createCampaign
       ELSE /\ createCampaign' = CampaignLoaded(createCampaign, data)
            /\ UNCHANGED dashboard
    /\ lastEvent' = IF Live(g)
                    THEN Event("agentsLoaded", g.inst, ToString(Len(data)))
                    ELSE Stale(g.inst, "agents")
    /\ UNCHANGED <<activeSection, inst, posts, getsIssued, postsIssued>>

\* fetchAgents ends in its catch block with the error message msg
AgentsSettleFailed(g, msg, why) ==
    /\ gets' = gets \ {g}
    /\ IF ~Live(g) THEN UNCHANGED <<dashboard, createCampaign>>
       ELSE IF Mounted = "Dashboard"
       THEN /\ dashboard' = DashboardFailed(dashboard, msg)
            /\ UNCHANGED createCampaign
       ELSE /\ createCampaign' = CampaignFailed(createCampaign, msg)
            /\ UNCHANGED dashboard
    /\ lastEvent' = IF Live(g) THEN Event("agentsFailed", g.inst, why)
                    ELSE Stale(g.inst, "agents")
    /\ UNCHANGED <<activeSection, inst, posts, getsIssued, postsIssued>>

\* await fetch(.../api/v1/agents) rejects: transport failure
AgentsFetchRejects(g, err) ==
    /\ g \in gets /\ g.phase = "fetch"
    /\ AgentsSettleFailed(g, err, "transport")

\* await fetch(.../api/v1/agents) resolves with a response of this status:
\* a response that is not ok throws, an ok one goes on to response.json()
AgentsFetchResolves(g, status) ==
    /\ g \in gets /\ g.phase = "fetch"
    /\ IF ~Ok(status)
       THEN AgentsSettleFailed(g, HttpError(status), ToString(status))
       ELSE /\ gets' = (gets \ {g}) \cup {[g EXCEPT !.phase = "json"]}
            /\ lastEvent' = Quiet
            /\ UNCHANGED <<activeSection, inst, dashboard, createCampaign,
                           posts, getsIssued, postsIssued>>

\* await response.json() resolves with the decoded collection
AgentsJsonResolves(g, data) ==
    /\ g \in gets /\ g.phase = "json"
    /\ AgentsSettleLoaded(g, data)

\* await response.json() rejects: the body is not JSON
AgentsJsonRejects(g, err) ==
    /\ g \in gets /\ g.phase = "json"
    /\ AgentsSettleFailed(g, err, "decode")

(* ------------------- CreateCampaign: the two selections --------------- *)
\* faulty variant: selecting a file dismisses the outcome message
SelectFile_ClearsMessage(f) ==
    /\ Mounted = "CreateCampaign"
    /\ createCampaign' = [createCampaign EXCEPT !.selectedFile = f,
                                                !.message = "",
                                                !.messageType = ""]
    /\ lastEvent' = Quiet
    /\ UNCHANGED <<activeSection, inst, dashboard, gets, posts, getsIssued,
                   postsIssued>>

\* FileUpload.onFileChange: handleFileChange(event.target.files[0]), that
\* is setSelectedFile; files[0] is undefined when the user empties the input
SelectFile(f) ==
    /\ Mounted = "CreateCampaign"
    /\ createCampaign' = [createCampaign EXCEPT !.selectedFile = f]
    /\ lastEvent' = Quiet
    /\ UNCHANGED <<activeSection, inst, dashboard, gets, posts, getsIssued,
                   postsIssued>>

\* the values of the <option>s AgentSelect renders
OptionValues(c) == {c.agents[k].id : k \in 1..Len(c.agents)}

\* AgentSelect.onAgentChange: handleAgentChange(event.target.value), that is
\* setSelectedAgent; the <select> exists only when the roster is loaded and
\* not empty
SelectAgent(v) ==
    /\ Mounted = "CreateCampaign"
    /\ AgentSelectShows(createCampaign) = "select"
    /\ v \in OptionValues(createCampaign)
    /\ createCampaign' = [createCampaign EXCEPT !.selectedAgent = v]
    /\ lastEvent' = Quiet
    /\ UNCHANGED <<activeSection, inst, dashboard, gets, posts, getsIssued,
                   postsIssued>>

(* ------------------- CreateCampaign: handleCreateCampaign ------------- *)
\* faulty variant: disabled={!selectedFile || !selectedAgent}
SubmitDisabled_IgnoresLoading(c) ==
    ~Truthy(c.selectedFile) \/ ~Truthy(c.selectedAgent)

\* the disabled attribute of the submit button
SubmitDisabled(c) ==
    ~Truthy(c.selectedFile) \/ ~Truthy(c.selectedAgent) \/ c.loading

\* faulty variant: the agent guard placed before the file guard
ValidationError_AgentFirst(c) ==
    IF ~Truthy(c.selectedAgent)
    THEN "Please select an agent for the campaign."
    ELSE IF ~Truthy(c.selectedFile)
    THEN "Please select a CSV file to upload."
    ELSE ""

\* the message of the guard that returns early, "" when none does
ValidationError(c) ==
    IF ~Truthy(c.selectedFile) THEN "Please select a CSV file to upload."
    ELSE IF ~Truthy(c.selectedAgent)
    THEN "Please select an agent for the campaign."
    ELSE ""

\* setMessage(text); setMessageType('error'); return
SubmitRefused(c, text) == [c EXCEPT !.message = text, !.messageType = "error"]

\* faulty variant: setLoading(true) left out
SubmitStarted_NoLoading(c) == [c EXCEPT !.message = "", !.messageType = ""]

\* setLoading(true); setMessage(''); setMessageType('')
SubmitStarted(c) ==
    [c EXCEPT !.loading = TRUE, !.message = "", !.messageType = ""]

\* the multipart body: the file under 'file', the agent id under 'agent_id'
FormData(c) == [file |-> c.selectedFile, agent_id |-> c.selectedAgent]

\* the POST handleCreateCampaign issues
UploadRequest(i, n, c) ==
    [inst |-> i, n |-> n, phase |-> "fetch", ok |-> FALSE,
     formData |-> FormData(c)]

\* the body of handleCreateCampaign up to its first await
handleCreateCampaign ==
    /\ Mounted = "CreateCampaign"
    /\ IF ValidationError(createCampaign) # ""
       THEN /\ createCampaign' =
                  SubmitRefused(createCampaign, ValidationError(createCampaign))
            /\ lastEvent' = Event("submitRefused", inst, "")
            /\ UNCHANGED <<posts, postsIssued>>
       ELSE /\ postsIssued < MaxPosts
            /\ createCampaign' = SubmitStarted(createCampaign)
            /\ posts' = posts \cup
                  {UploadRequest(inst, postsIssued + 1, createCampaign)}
            /\ postsIssued' = postsIssued + 1
            /\ lastEvent' = Event("submitStarted", inst, "")
    /\ UNCHANGED <<activeSection, inst, dashboard, gets, getsIssued>>

\* a click on the submit button: a disabled button delivers no click
ClickSubmit ==
    /\ Mounted = "CreateCampaign"
    /\ ~SubmitDisabled(createCampaign)
    /\ handleCreateCampaign

\* faulty variant: the whole form is reset after a success
UploadSucceeded_ResetsAgent(c, data) ==
    [c EXCEPT !.message = "Campaign created! Processed "
                          \o ToString(Len(data.lead_ids)) \o " leads.",
              !.messageType = "success",
              !.selectedFile = null,
              !.selectedAgent = ""]

\* faulty variant: setSelectedFile(null) left out
UploadSucceeded_KeepsFile(c, data) ==
    [c EXCEPT !.message = "Campaign created! Processed "
                          \o ToString(Len(data.lead_ids)) \o " leads.",
              !.messageType = "success"]

\* response.ok: setMessage(`Campaign created! Processed ${n} leads.`);
\* setMessageType('success'); setSelectedFile(null)
UploadSucceeded(c, data) ==
    [c EXCEPT !.message = "Campaign created! Processed "
                          \o ToString(Len(data.lead_ids)) \o " leads.",
              !.messageType = "success",
              !.selectedFile = null]

\* faulty variant: the file is cleared after a failure too
UploadRejected_ClearsFile(c, errorData) ==
    [c EXCEPT !.message = "Campaign creation failed: "
                          \o OrElse(Field(errorData, "detail"), "Unknown error"),
              !.messageType = "error",
              !.selectedFile = null]

\* not response.ok: setMessage(`Campaign creation failed: ${detail || ...}`);
\* setMessageType('error')
UploadRejected(c, errorData) ==
    [c EXCEPT !.message = "Campaign creation failed: "
                          \o OrElse(Field(errorData, "detail"), "Unknown error"),
              !.messageType = "error"]

\* catch (error): setMessage(`An error occurred: ${error.message}`);
\* setMessageType('error')
UploadThrew(c, msg) ==
    [c EXCEPT !.message = "An error occurred: " \o msg,
              !.messageType = "error"]

\* faulty variant: no finally block
UploadFinally_Skipped(c) == c

\* finally: setLoading(false)
UploadFinally(c) == [c EXCEPT !.loading = FALSE]

\* the try block after response.json() resolved with body: reading .length
\* of a missing lead_ids throws into the catch block
UploadDecoded(c, ok, body) ==
    IF ok
    THEN IF "lead_ids" \in DOMAIN body
         THEN UploadSucceeded(c, body)
         ELSE UploadThrew(c, LengthOfUndefined)
    ELSE UploadRejected(c, body)

\* the last continuation of handleCreateCampaign for request p leaves the
\* state next (when its instance is still mounted)
UploadSettles(p, next, op, arg) ==
    /\ posts' = posts \ {p}
    /\ createCampaign' = IF Live(p) THEN UploadFinally(next)
                         ELSE createCampaign
    /\ lastEvent' = IF Live(p)
                    THEN [Event(op, p.inst, arg) EXCEPT
                             !.sent = p.formData.file,
                             !.before = createCampaign.selectedFile]
                    ELSE Stale(p.inst, "upload")
    /\ UNCHANGED <<activeSection, inst, dashboard, gets, getsIssued,
                   postsIssued>>

\* await fetch(.../api/v1/upload-leads) rejects: transport failure
UploadFetchRejects(p, err) ==
    /\ p \in posts /\ p.phase = "fetch"
    /\ UploadSettles(p, UploadThrew(createCampaign, err),
                     "uploadTransport", err)

\* await fetch(.../api/v1/upload-leads) resolves with a response of this
\* status; both branches go on to response.json()
UploadFetchResolves(p, status) ==
    /\ p \in posts /\ p.phase = "fetch"
    /\ posts' = (posts \ {p})
                \cup {[p EXCEPT !.phase = "json", !.ok = Ok(status)]}
    /\ lastEvent' = Quiet
    /\ UNCHANGED <<activeSection, inst, dashboard, createCampaign, gets,
                   getsIssued, postsIssued>>

\* history: which branch a decoded body takes, and what it carries (the
\* number of lead_ids of a success, the detail of a failure)
UploadOutcome(ok, body) ==
    IF ~ok THEN "uploadNotOk"
    ELSE IF "lead_ids" \in DOMAIN body THEN "uploadOk"
    ELSE "uploadOkThrew"

UploadDetail(ok, body) ==
    IF ~ok THEN Field(body, "detail")
    ELSE IF "lead_ids" \in DOMAIN body THEN ToString(Len(body.lead_ids))
    ELSE LengthOfUndefined

\* await response.json() resolves with the decoded body
UploadJsonResolves(p, body) ==
    /\ p \in posts /\ p.phase = "json"
    /\ UploadSettles(p, UploadDecoded(createCampaign, p.ok, body),
                     UploadOutcome(p.ok, body), UploadDetail(p.ok, body))

\* await response.json() rejects: the body is not JSON
UploadJsonRejects(p, err) ==
    /\ p \in posts /\ p.phase = "json"
    /\ UploadSettles(p, UploadThrew(createCampaign, err),
                     IF p.ok THEN "uploadOkThrew" ELSE "uploadNotOkThrew", err)

\* await response.json() resolves with null: data.lead_ids, or
\* errorData.detail, throws into the catch block
UploadJsonResolvesNull(p) ==
    /\ p \in posts /\ p.phase = "json"
    /\ UploadSettles(p, UploadThrew(createCampaign, FieldOfNull),
                     IF p.ok THEN "uploadOkThrew" ELSE "uploadNotOkThrew",
                     FieldOfNull)

(* --------------------------- specifications --------------------------- *)
\* events of the network
Network ==
    \/ \E g \in gets, err \in TransportErrors : AgentsFetchRejects(g, err)
    \/ \E g \in gets, status \in AgentsStatuses : AgentsFetchResolves(g, status)
    \/ \E g \in gets, data \in Rosters : AgentsJsonResolves(g, data)
    \/ \E g \in gets, err \in DecodeErrors : AgentsJsonRejects(g, err)
    \/ \E p \in posts, err \in TransportErrors : UploadFetchRejects(p, err)
    \/ \E p \in posts, status \in UploadStatuses : UploadFetchResolves(p, status)
    \/ \E p \in posts, body \in UploadBodies : UploadJsonResolves(p, body)
    \/ \E p \in posts, err \in DecodeErrors : UploadJsonRejects(p, err)
    \/ \E p \in posts : UploadJsonResolvesNull(p)

\* events of the user, apart from the submission
Selections ==
    \/ \E section \in Sections : setActiveSection(section)
    \/ \E f \in Files \cup {undefined} : SelectFile(f)
    \/ \E v \in {Agent1.id, Agent2.id} : SelectAgent(v)

\* the application in the browser: handleCreateCampaign runs on a click
Next == Network \/ Selections \/ ClickSubmit

Spec == Init /\ [][Next]_vars

\* handleCreateCampaign called although a selection is missing: the button is
\* disabled then, so no click reaches the handler and only a direct call
\* exercises its two guards
CallUnselected ==
    /\ Mounted = "CreateCampaign"
    /\ \/ ~Truthy(createCampaign.selectedFile)
       \/ ~Truthy(createCampaign.selectedAgent)
    /\ handleCreateCampaign

NextHandler == Network \/ Selections \/ ClickSubmit \/ CallUnselected

SpecHandler == Init /\ [][NextHandler]_vars

(* ------------------------------ properties ---------------------------- *)
\* the uploads of instance i that have not settled
InFlight(i) == {p \in posts : p.inst = i}

\* t occurs in s
Contains(s, t) ==
    \E k \in 1..(Len(s) - Len(t) + 1) : SubSeq(s, k, k + Len(t) - 1) = t

\* the steps that end a run of handleCreateCampaign after its POST
UploadEnds ==
    {"uploadOk", "uploadOkThrew", "uploadNotOk", "uploadNotOkThrew",
     "uploadTransport"}

\* C1: in every reachable state of the Campaign Creation View the submit
\* control is enabled if and only if Selected File is non-empty, Selected
\* Agent is non-empty and no upload of the view is in flight.
C1_SubmitEnabledIff ==
    Mounted = "CreateCampaign" =>
        (~SubmitDisabled(createCampaign) <=>
            /\ Truthy(createCampaign.selectedFile)
            /\ Truthy(createCampaign.selectedAgent)
            /\ InFlight(inst) = {})

\* the control is enabled again after a submission of the view has failed
C1_Witness ==
    /\ Mounted = "CreateCampaign"
    /\ ~SubmitDisabled(createCampaign)
    /\ lastEvent.op = "uploadNotOk"

\* C2: at most one upload POST of a view instance is in flight at any time.
C2_AtMostOnePost == \A i \in 1..MaxMounts : Cardinality(InFlight(i)) <= 1

\* the second POST of the run is in flight, issued by the instance that
\* issued the first one
C2_Witness ==
    /\ inst = 2
    /\ \E p \in posts : p.n = 2 /\ p.inst = 2 /\ p.phase = "json"

\* C3: handleCreateCampaign run while Selected File is empty reports the
\* 'select a CSV' error, run with a file but no Selected Agent it reports the
\* 'select an agent' error (the file check first); in both cases no POST is
\* issued, the submitting flag does not change and both selections stay.
C3_GuardsRefuse ==
    [][(/\ lastEvent'.op \in {"submitRefused", "submitStarted"}
        /\ \/ ~Truthy(createCampaign.selectedFile)
           \/ ~Truthy(createCampaign.selectedAgent))
       => /\ IF ~Truthy(createCampaign.selectedFile)
             THEN Contains(createCampaign'.message, "select a CSV")
             ELSE Contains(createCampaign'.message, "select an agent")
          /\ createCampaign'.messageType = "error"
          /\ posts' = posts
          /\ postsIssued' = postsIssued
          /\ createCampaign'.loading = createCampaign.loading
          /\ createCampaign'.selectedFile = createCampaign.selectedFile
          /\ createCampaign'.selectedAgent = createCampaign.selectedAgent
      ]_vars

\* the handler has refused a submission that had a file but no agent
C3_Witness ==
    /\ lastEvent.op = "submitRefused"
    /\ Truthy(createCampaign.selectedFile)
    /\ ~Truthy(createCampaign.selectedAgent)
    /\ Contains(createCampaign.message, "select an agent")

\* C4: when the POST returns success with a body carrying lead_ids, the step
\* that handles the response leaves an outcome of kind success that reports
\* the number of lead_ids, an empty Selected File, the Selected Agent as it
\* was, and a view that is not submitting, with its submit control disabled.
C4_SuccessOutcome ==
    [][lastEvent'.op = "uploadOk"
       => /\ createCampaign'.messageType = "success"
          /\ Contains(createCampaign'.message,
                      "Processed " \o lastEvent'.arg \o " leads")
          /\ ~Truthy(createCampaign'.selectedFile)
          /\ createCampaign'.selectedAgent = createCampaign.selectedAgent
          /\ Truthy(createCampaign'.selectedAgent)
          /\ ~createCampaign'.loading
          /\ SubmitDisabled(createCampaign')
      ]_vars

\* a success response with three lead_ids has been handled
C4_Witness ==
    /\ lastEvent.op = "uploadOk"
    /\ lastEvent.arg = "3"
    /\ createCampaign.messageType = "success"
    /\ createCampaign.selectedFile = null

\* what C5 says of every response that is not a success, whatever its body
C5_ErrorOutcome(label) ==
    /\ createCampaign'.messageType = "error"
    /\ Contains(createCampaign'.message, label)
    /\ ~createCampaign'.loading
    /\ createCampaign'.selectedFile = createCampaign.selectedFile
    /\ createCampaign'.selectedAgent = createCampaign.selectedAgent

\* C5 as claimed: after a response that is not a success the outcome is an
\* error whose message incorporates the body's detail when the body has one
\* and the generic label otherwise; the view is not submitting and both
\* selections are unchanged.
C5_Original ==
    [][lastEvent'.op \in {"uploadNotOk", "uploadNotOkThrew"}
       => C5_ErrorOutcome(
            IF lastEvent'.op = "uploadNotOk" /\ lastEvent'.arg # undefined
            THEN lastEvent'.arg ELSE "Unknown error")
      ]_vars

\* C5 as amended: the same, except that when the body cannot be read as a
\* JSON object the message carries the text of the error caught instead of
\* the generic label, and that an empty detail gives the generic label.
C5_Amended ==
    [][lastEvent'.op \in {"uploadNotOk", "uploadNotOkThrew"}
       => C5_ErrorOutcome(
            IF lastEvent'.op = "uploadNotOkThrew" THEN lastEvent'.arg
            ELSE IF lastEvent'.arg \in {undefined, ""} THEN "Unknown error"
            ELSE lastEvent'.arg)
      ]_vars

\* a response that is not a success and has no decodable body was handled
C5_Witness ==
    /\ lastEvent.op = "uploadNotOkThrew"
    /\ lastEvent.arg \in DecodeErrors
    /\ Truthy(createCampaign.selectedFile)
    /\ ~SubmitDisabled(createCampaign)

\* C6: the outcome message of a view instance is never dismissed on its
\* own: a step that changes it (or its kind) is a step of that instance's
\* handleCreateCampaign (a guard, the start, or the end of its upload), never
\* Select file, Select agent or the end of an agent fetch.
C6_MessageStays ==
    [][(/\ inst' = inst
        /\ <<createCampaign'.message, createCampaign'.messageType>>
             # <<createCampaign.message, createCampaign.messageType>>)
       => /\ lastEvent'.inst = inst
          /\ lastEvent'.op \in {"submitRefused", "submitStarted"} \cup UploadEnds
      ]_vars

\* a success message is still shown after the user selected the next file
C6_Witness ==
    /\ createCampaign.messageType = "success"
    /\ Truthy(createCampaign.selectedFile)
    /\ lastEvent = Quiet
    /\ gets = {}

\* C7: every mount issues exactly one GET of the agents; when the Dashboard's
\* request fails the view shows the error state with the failure message (the
\* status code for a response that is not ok), and as long as that instance
\* is mounted it keeps showing it and issues no other request.
C7_RosterFailure ==
    /\ [](\A i \in 1..MaxMounts : getsIssued[i] = IF i <= inst THEN 1 ELSE 0)
    /\ [][(lastEvent'.op = "agentsFailed" /\ Mounted' = "Dashboard")
          => /\ DashboardShows(dashboard') = "error"
             /\ IF lastEvent'.arg = "transport"
                THEN dashboard'.error \in TransportErrors
                ELSE IF lastEvent'.arg = "decode"
                THEN dashboard'.error \in DecodeErrors
                ELSE Contains(dashboard'.error, lastEvent'.arg)
         ]_vars
    /\ [][(/\ Mounted = "Dashboard"
           /\ DashboardShows(dashboard) = "error"
           /\ inst' = inst)
          => /\ dashboard' = dashboard
             /\ getsIssued' = getsIssued
             /\ \A g \in gets' : g.inst # inst
         ]_vars

\* the Dashboard shows the error of a response with status 500
C7_Witness ==
    /\ Mounted = "Dashboard"
    /\ lastEvent.op = "agentsFailed"
    /\ lastEvent.arg = "500"
    /\ DashboardShows(dashboard) = "error"
    /\ Contains(dashboard.error, "500")

\* C8: the end of an agent fetch of an instance that is no longer mounted
\* changes no state of the mounted view; the end of the mounted
\* CreateCampaign's own fetch changes none of Selected File, Selected Agent,
\* the submitting flag and the outcome message; and Select file is possible
\* whenever CreateCampaign is mounted, whatever the state of the roster.
C8_FetchFrame ==
    /\ [](Mounted = "CreateCampaign" => \A f \in Files : ENABLED SelectFile(f))
    /\ [][(lastEvent'.op = "stale" /\ lastEvent'.arg = "agents")
          => UNCHANGED <<dashboard, createCampaign>>
         ]_vars
    /\ [][(/\ lastEvent'.op \in {"agentsLoaded", "agentsFailed"}
           /\ Mounted = "CreateCampaign")
          => /\ createCampaign'.selectedFile = createCampaign.selectedFile
             /\ createCampaign'.selectedAgent = createCampaign.selectedAgent
             /\ createCampaign'.loading = createCampaign.loading
             /\ createCampaign'.message = createCampaign.message
             /\ createCampaign'.messageType = createCampaign.messageType
             /\ dashboard' = dashboard
         ]_vars

\* the fetch of the first CreateCampaign has ended while the second one,
\* mounted later, still waits for its own
C8_Witness ==
    /\ inst = 4
    /\ lastEvent.op = "stale" /\ lastEvent.arg = "agents"
    /\ lastEvent.inst = 2
    /\ createCampaign.agentLoading
    /\ \E g \in gets : g.inst = 4

\* C9: whatever the way the request of a submission settles, the step that
\* handles it leaves the view not submitting, with an outcome message that is
\* not empty and no upload of the view in flight.
C9_SubmissionEnds ==
    lastEvent.op \in UploadEnds =>
        /\ ~createCampaign.loading
        /\ createCampaign.message # ""
        /\ createCampaign.messageType \in {"success", "error"}
        /\ InFlight(inst) = {}

\* a success response whose body lacks lead_ids has been handled
C9_Witness ==
    /\ lastEvent.op = "uploadOkThrew"
    /\ lastEvent.arg = LengthOfUndefined
    /\ createCampaign.messageType = "error"
    /\ ~createCampaign.loading

\* the case of C10: a success response has been handled while the Selected
\* File was a file other than the one that was sent
C10_Reselected ==
    /\ lastEvent.op = "uploadOk"
    /\ Truthy(lastEvent.before)
    /\ lastEvent.before # lastEvent.sent

\* C10 as claimed: a file selected while the submission was in flight is
\* still the Selected File after the success response has been handled.
C10_Original ==
    C10_Reselected => createCampaign.selectedFile = lastEvent.before

\* C10 as amended: a success response clears the Selected File whatever it
\* is by then; a file selected while the submission was in flight is dropped.
C10_Amended ==
    C10_Reselected => createCampaign.selectedFile = null

\* other.csv was selected while leads.csv was being uploaded, and is gone
C10_Witness ==
    /\ C10_Reselected
    /\ lastEvent.sent = "leads.csv"
    /\ lastEvent.before = "other.csv"
    /\ ~Truthy(createCampaign.selectedFile)

=============================================================================
